---- MODULE Spec2Model ----
(***************************************************************************)
(* A model of utils/augmentations.py: the transforms of the augmentation   *)
(* pipeline (Compose, Expand, RandomSampleCrop, RandomMirror, Resize, Pad, *)
(* the coordinate conversions) acting on the 4-tuple (image, masks, boxes, *)
(* labels).  Pixel values are not modelled: an image is its shape, dtype   *)
(* and channel order, a mask array is its shape and the input annotation   *)
(* each of its slices comes from.  Box coordinates and every random.uniform*)
(* draw are exact rationals <<numerator, denominator>>; a draw ranges over *)
(* both end points of its interval and the multiples of 1/Grid in between. *)
(***************************************************************************)
EXTENDS Integers, Sequences, FiniteSets, TLC

VARIABLES pipeline, idx, err, image, masks, boxes, labels,
          pc, mode, trial, rect, ret, placed, drew, input

vars == <<pipeline, idx, err, image, masks, boxes, labels,
          pc, mode, trial, rect, ret, placed, drew, input>>

(***************************************************************************)
(* Bounds of the model.                                                    *)
(***************************************************************************)
\* random.uniform draws are the end points and the multiples of 1/Grid
Grid == 1
\* image sides of the inputs are 1..MaxSide
MaxSide == 2
\* an input has 1..MaxAnn annotations
MaxAnn == 2
\* cfg.img_size ranges over 1..MaxImgSize
MaxImgSize == 2

(***************************************************************************)
(* Program constants.                                                      *)
(***************************************************************************)
\* for _ in range(50)
MaxTrials == 50
\* ratio = random.uniform(1, 4)
MaxRatio == 4

(***************************************************************************)
(* Exact rational arithmetic standing for the float arithmetic of the code.*)
(***************************************************************************)
Abs(n) == IF n < 0 THEN -n ELSE n

RECURSIVE GCD(_, _)
GCD(a, b) == IF b = 0 THEN a ELSE GCD(b, a % b)

\* the rational n/d (d # 0) in lowest terms with a positive denominator
Norm(n, d) ==
    IF d = 1 THEN <<n, 1>>
    ELSE LET s == IF d < 0 THEN -1 ELSE 1
             g == GCD(Abs(n), Abs(d))
         IN  <<(s * n) \div g, (s * d) \div g>>

R(n) == <<n, 1>>
RAdd(a, b) == IF a[2] = 1 /\ b[2] = 1 THEN <<a[1] + b[1], 1>>
              ELSE Norm(a[1] * b[2] + b[1] * a[2], a[2] * b[2])
RSub(a, b) == IF a[2] = 1 /\ b[2] = 1 THEN <<a[1] - b[1], 1>>
              ELSE Norm(a[1] * b[2] - b[1] * a[2], a[2] * b[2])
RMul(a, b) == IF a[2] = 1 /\ b[2] = 1 THEN <<a[1] * b[1], 1>>
              ELSE Norm(a[1] * b[1], a[2] * b[2])
RDiv(a, b) == Norm(a[1] * b[2], a[2] * b[1])
RLt(a, b) == a[1] * b[2] < b[1] * a[2]
RLe(a, b) == a[1] * b[2] <= b[1] * a[2]
RMin(a, b) == IF RLe(a, b) THEN a ELSE b
RMax(a, b) == IF RLe(a, b) THEN b ELSE a

\* Python's int(x): truncation toward zero
PyInt(a) == IF a[1] >= 0 THEN a[1] \div a[2] ELSE -((-a[1]) \div a[2])

\* floor and ceiling of a rational
Floor(a) == a[1] \div a[2]
Ceil(a) == -((-a[1]) \div a[2])

\* random.uniform(a, b) = a + (b - a) * random(), random() in [0, 1): the
\* result lies between a and b; a is drawn when random() = 0 and b may be
\* reached by rounding (the library documents [a, b) or [a, b])
Uniform(a, b) ==
    LET lo == RMin(a, b)
        hi == RMax(a, b)
    IN  {a, b} \cup
        {Norm(k, Grid) : k \in Ceil(RMul(lo, R(Grid))) .. Floor(RMul(hi, R(Grid)))}

(***************************************************************************)
(* Float values that may be non-finite: the overlaps and the IoU bounds.   *)
(***************************************************************************)
Num(q) == [k |-> "num", v |-> q]
NaN == [k |-> "nan", v |-> R(0)]
PosInf == [k |-> "inf", v |-> R(0)]
NegInf == [k |-> "-inf", v |-> R(0)]

\* IEEE a < b: false whenever an operand is nan
FLt(a, b) ==
    CASE a.k = "inf" -> FALSE
      [] b.k = "-inf" -> FALSE
      [] a.k = "nan" \/ b.k = "nan" -> FALSE
      [] a.k = "-inf" -> TRUE
      [] b.k = "inf" -> TRUE
      [] OTHER -> RLt(a.v, b.v)

\* numpy's n / d on floats: division by zero gives nan or +-inf, no error
FDiv(n, d) ==
    IF d[1] # 0 THEN Num(RDiv(n, d))
    ELSE IF n[1] = 0 THEN NaN
    ELSE IF n[1] > 0 THEN PosInf ELSE NegInf

RECURSIVE ArrFold(_, _, _)
\* ndarray.min() / ndarray.max() of a non-empty array: nan propagates
ArrFold(arr, i, less) ==
    IF i = Len(arr) THEN arr[i]
    ELSE LET rest == ArrFold(arr, i + 1, less)
         IN  IF arr[i].k = "nan" THEN arr[i]
             ELSE IF rest.k = "nan" THEN rest
             ELSE IF less THEN (IF FLt(rest, arr[i]) THEN rest ELSE arr[i])
             ELSE (IF FLt(arr[i], rest) THEN rest ELSE arr[i])

ArrMin(arr) == ArrFold(arr, 1, TRUE)
ArrMax(arr) == ArrFold(arr, 1, FALSE)

(***************************************************************************)
(* Geometric primitives.  A box is <<x1, y1, x2, y2>> of rationals, a rect *)
(* is <<x1, y1, x2, y2>> of integers.                                      *)
(***************************************************************************)
RectBox(r) == <<R(r[1]), R(r[2]), R(r[3]), R(r[4])>>

\* np.clip(v, a_min=0, a_max=np.inf)
ClipZero(v) == RMax(v, R(0))

\* one row of intersect: the clipped overlap area of box a and box_b
InterArea(a, box_b) ==
    LET max_x == RMin(a[3], box_b[3])
        max_y == RMin(a[4], box_b[4])
        min_x == RMax(a[1], box_b[1])
        min_y == RMax(a[2], box_b[2])
    IN  RMul(ClipZero(RSub(max_x, min_x)), ClipZero(RSub(max_y, min_y)))

RECURSIVE intersect(_, _)
intersect(box_a, box_b) ==
    IF box_a = <<>> THEN <<>>
    ELSE <<InterArea(Head(box_a), box_b)>> \o intersect(Tail(box_a), box_b)

Area(b) == RMul(RSub(b[3], b[1]), RSub(b[4], b[2]))

RECURSIVE IoURows(_, _, _)
\* inter / union, row by row
IoURows(box_a, inter, area_b) ==
    IF box_a = <<>> THEN <<>>
    ELSE <<FDiv(Head(inter), RSub(RAdd(Area(Head(box_a)), area_b), Head(inter)))>>
         \o IoURows(Tail(box_a), Tail(inter), area_b)

jaccard_numpy(box_a, box_b) ==
    IoURows(box_a, intersect(box_a, box_b), Area(box_b))

\* the x coordinates of a box times fx, its y coordinates times fy
ScaleBox(b, fx, fy) == <<RMul(b[1], fx), RMul(b[2], fy), RMul(b[3], fx), RMul(b[4], fy)>>

RECURSIVE ScaleBoxes(_, _, _)
ScaleBoxes(bxs, fx, fy) ==
    IF bxs = <<>> THEN <<>>
    ELSE <<ScaleBox(Head(bxs), fx, fy)>> \o ScaleBoxes(Tail(bxs), fx, fy)

(***************************************************************************)
(* numpy slicing and slice assignment.                                     *)
(***************************************************************************)
Min(a, b) == IF a <= b THEN a ELSE b
Max(a, b) == IF a >= b THEN a ELSE b

\* length of a[lo:hi] for 0 <= lo, hi on an axis of length n
SliceLen(lo, hi, n) == Max(0, Min(hi, n) - Min(lo, n))

\* dst[...] = src along one axis: the lengths agree or src broadcasts from 1
AssignOK(src, dst) == src = dst \/ src = 1

\* arr[mask] for a boolean mask
RECURSIVE Select(_, _)
Select(arr, mask) ==
    IF arr = <<>> THEN <<>>
    ELSE IF Head(mask) THEN <<Head(arr)>> \o Select(Tail(arr), Tail(mask))
    ELSE Select(Tail(arr), Tail(mask))

RECURSIVE Sum(_)
Sum(arr) == IF arr = <<>> THEN 0 ELSE Head(arr) + Sum(Tail(arr))

(***************************************************************************)
(* RandomSampleCrop.                                                       *)
(***************************************************************************)
NoneV == [k |-> "none", v |-> R(0)]

\* self.sample_options: None, then (min_iou, max_iou) pairs
sample_options ==
    << [full |-> TRUE, min_iou |-> NoneV, max_iou |-> NoneV],
       [full |-> FALSE, min_iou |-> Num(<<1, 10>>), max_iou |-> NoneV],
       [full |-> FALSE, min_iou |-> Num(<<3, 10>>), max_iou |-> NoneV],
       [full |-> FALSE, min_iou |-> Num(<<7, 10>>), max_iou |-> NoneV],
       [full |-> FALSE, min_iou |-> Num(<<9, 10>>), max_iou |-> NoneV],
       [full |-> FALSE, min_iou |-> NoneV, max_iou |-> NoneV] >>

\* the positions of the cropping modes in sample_options
CropModes == {i \in 1..Len(sample_options) : ~sample_options[i].full}

\* if min_iou is None: min_iou = float('-inf')
MinIoU(m) == IF sample_options[m].min_iou.k = "none" THEN NegInf
             ELSE sample_options[m].min_iou

\* if max_iou is None: max_iou = float('inf')
MaxIoU(m) == IF sample_options[m].max_iou.k = "none" THEN PosInf
             ELSE sample_options[m].max_iou

\* if h / w < 0.5 or h / w > 2: continue
AspectFails(w, h) == RLt(RDiv(h, w), <<1, 2>>) \/ RLt(R(2), RDiv(h, w))

\* the sizes (w, h) the two draws of a trial can give
SampledSizes(height, width) ==
    Uniform(RMul(<<3, 10>>, R(width)), R(width)) \X
    Uniform(RMul(<<3, 10>>, R(height)), R(height))

\* rect = [int(left), int(top), int(left + w), int(top + h)] over the draws
\* of left and top, for a size that passed the aspect test
RectsOfSize(height, width, w, h) ==
    {<<PyInt(left), PyInt(top), PyInt(RAdd(left, w)), PyInt(RAdd(top, h))>> :
        left \in Uniform(R(1), RSub(R(width), w)),
        top \in Uniform(R(1), RSub(R(height), h))}

\* every rect a trial can reach the overlap computation with
SampledRects(height, width) ==
    UNION {RectsOfSize(height, width, wh[1], wh[2]) :
             wh \in {s \in SampledSizes(height, width) : ~AspectFails(s[1], s[2])}}

\* whether some draw of (w, h) fails the aspect test
AspectCanFail(height, width) ==
    \E wh \in SampledSizes(height, width) : AspectFails(wh[1], wh[2])

\* if overlap.min() < min_iou and max_iou < overlap.max(): continue
OverlapRejectsOr(overlap, min_iou, max_iou) ==
    FLt(ArrMin(overlap), min_iou) \/ FLt(max_iou, ArrMax(overlap))

OverlapRejects(overlap, min_iou, max_iou) ==
    FLt(ArrMin(overlap), min_iou) /\ FLt(max_iou, ArrMax(overlap))

\* one entry of mask = m1 * m2: the box centre lies strictly inside rect
CentreInside(b, r) ==
    LET cx == RDiv(RAdd(b[1], b[3]), R(2))
        cy == RDiv(RAdd(b[2], b[4]), R(2))
    IN  /\ RLt(R(r[1]), cx) /\ RLt(R(r[2]), cy)
        /\ RLt(cx, R(r[3])) /\ RLt(cy, R(r[4]))

RECURSIVE CentreMask(_, _)
CentreMask(bxs, r) ==
    IF bxs = <<>> THEN <<>>
    ELSE <<CentreInside(Head(bxs), r)>> \o CentreMask(Tail(bxs), r)

\* crowd_mask = zeros; if num_crowds > 0: crowd_mask[-num_crowds:] = 1
RECURSIVE CrowdMask(_, _)
CrowdMask(n, num_crowds) ==
    IF n = 0 THEN <<>>
    ELSE IF num_crowds > 0
    THEN CrowdMask(n - 1, num_crowds - 1) \o <<1>>
    ELSE CrowdMask(n - 1, 0) \o <<0>>

\* 1 - crowd_mask[mask]
RECURSIVE OneMinus(_)
OneMinus(arr) == IF arr = <<>> THEN <<>> ELSE <<1 - Head(arr)>> \o OneMinus(Tail(arr))

RegularOf(crowd_mask, mask) == OneMinus(Select(crowd_mask, mask))

NoValidBoxesAnyOnly(mask, crowd_mask) ==
    ~(\E i \in 1..Len(mask) : mask[i])

\* if not mask.any() or np.sum(1 - crowd_mask[mask]) == 0: continue
NoValidBoxes(mask, crowd_mask) ==
    \/ ~(\E i \in 1..Len(mask) : mask[i])
    \/ Sum(RegularOf(crowd_mask, mask)) = 0

CropMasksAll(msk, mask, r) ==
    [ids |-> msk.ids,
     h |-> SliceLen(r[2], r[4], msk.h),
     w |-> SliceLen(r[1], r[3], msk.w)]

\* current_masks = masks[mask, :, :].copy()
\* current_masks = current_masks[:, rect[1]:rect[3], rect[0]:rect[2]]
CropMasks(msk, mask, r) ==
    [ids |-> Select(msk.ids, mask),
     h |-> SliceLen(r[2], r[4], msk.h),
     w |-> SliceLen(r[1], r[3], msk.w)]

NewNumCrowdsKept(num_crowds, crowd_mask, mask) == num_crowds

\* if num_crowds > 0: labels['num_crowds'] = np.sum(crowd_mask[mask])
NewNumCrowds(num_crowds, crowd_mask, mask) ==
    IF num_crowds > 0 THEN Sum(Select(crowd_mask, mask)) ELSE num_crowds

\* labels['labels'] = labels['labels'][mask], then the num_crowds update
CropLabels(lbl, crowd_mask, mask) ==
    [labels |-> Select(lbl.labels, mask),
     num_crowds |-> NewNumCrowds(lbl.num_crowds, crowd_mask, mask)]

TranslateToCrop(box, r) ==
    << RSub(box[1], R(r[1])), RSub(box[2], R(r[2])),
       RSub(box[3], R(r[1])), RSub(box[4], R(r[2])) >>

\* current_boxes[:, :2] = np.maximum(current_boxes[:, :2], rect[:2]) - rect[:2]
\* current_boxes[:, 2:] = np.minimum(current_boxes[:, 2:], rect[2:]) - rect[:2]
ClipToCrop(box, r) ==
    << RSub(RMax(box[1], R(r[1])), R(r[1])),
       RSub(RMax(box[2], R(r[2])), R(r[2])),
       RSub(RMin(box[3], R(r[3])), R(r[1])),
       RSub(RMin(box[4], R(r[4])), R(r[2])) >>

\* current_boxes = boxes[mask, :].copy(), clipped and translated
RECURSIVE ClipAll(_, _)
ClipAll(bxs, r) ==
    IF bxs = <<>> THEN <<>> ELSE <<ClipToCrop(Head(bxs), r)>> \o ClipAll(Tail(bxs), r)

CropBoxes(bxs, mask, r) == ClipAll(Select(bxs, mask), r)

\* current_image = current_image[rect[1]:rect[3], rect[0]:rect[2], :]
CropImage(img, r) ==
    [img EXCEPT !.h = SliceLen(r[2], r[4], img.h),
                !.w = SliceLen(r[1], r[3], img.w)]

\* one trial of mode m from the overlap computation on, for the rect r:
\* "error" (overlap.min() of an empty array raises), "reject" (continue)
\* or "accept" with the 4-tuple returned
CropTrial(m, r, img, msk, bxs, lbl) ==
    IF Len(bxs) = 0
    THEN [kind |-> "error", image |-> img, masks |-> msk, boxes |-> bxs, labels |-> lbl]
    ELSE LET overlap == jaccard_numpy(bxs, RectBox(r))
             mask == CentreMask(bxs, r)
             crowd_mask == CrowdMask(Len(bxs), lbl.num_crowds)
         IN  IF \/ OverlapRejects(overlap, MinIoU(m), MaxIoU(m))
                \/ NoValidBoxes(mask, crowd_mask)
             THEN [kind |-> "reject", image |-> img, masks |-> msk,
                   boxes |-> bxs, labels |-> lbl]
             ELSE [kind |-> "accept",
                   image |-> CropImage(img, r),
                   masks |-> CropMasks(msk, mask, r),
                   boxes |-> CropBoxes(bxs, mask, r),
                   labels |-> CropLabels(lbl, crowd_mask, mask)]

(***************************************************************************)
(* Compose: the transforms run in order on the 4-tuple; idx is the position*)
(* of the transform running or about to run, err the transform that raised.*)
(***************************************************************************)
\* a transform object: its class, and for Resize and Pad the target size and
\* the resize_gt / pad_gt flag
Transform(name, size, gt) == [name |-> name, size |-> size, gt |-> gt]

T(name) == Transform(name, 0, TRUE)

Running(name) ==
    /\ err = "none"
    /\ idx <= Len(pipeline)
    /\ pipeline[idx].name = name

\* Compose.__call__ has returned
Done == err = "none" /\ idx = Len(pipeline) + 1

NoPlacement == [applied |-> FALSE, h |-> 0, w |-> 0, canvas_h |-> 0, canvas_w |-> 0,
                top |-> 0, left |-> 0, bottom |-> 0, right |-> 0,
                shift |-> <<0, 0>>]

(***************************************************************************)
(* RandomSampleCrop.__call__: pc is "idle" at the head of "while True" and *)
(* "trials" inside "for _ in range(50)"; trial counts the trials started   *)
(* for the mode drawn last.                                                *)
(***************************************************************************)
\* mode = random.choice(self.sample_options); if mode is None: return
DrawNoOpMode ==
    /\ Running("RandomSampleCrop") /\ pc = "idle"
    /\ \E m \in 1..Len(sample_options) :
          /\ sample_options[m].full
          /\ mode' = m
    /\ ret' = "noop"
    /\ trial' = 0
    /\ idx' = idx + 1
    /\ drew' = TRUE
    /\ UNCHANGED <<pipeline, err, image, masks, boxes, labels, pc, rect, placed, input>>

\* mode = random.choice(self.sample_options), a (min_iou, max_iou) pair
DrawCropMode ==
    /\ Running("RandomSampleCrop") /\ pc = "idle"
    /\ \E m \in CropModes : mode' = m
    /\ trial' = 0
    /\ pc' = "trials"
    /\ drew' = TRUE
    /\ UNCHANGED <<pipeline, idx, err, image, masks, boxes, labels, rect, ret, placed, input>>

\* what one pass of the loop body can come to: the aspect test fails, or a
\* rect reaches the overlap computation
TrialCandidates(height, width) ==
    (IF AspectCanFail(height, width)
     THEN {[aspect_ok |-> FALSE, rect |-> <<0, 0, 0, 0>>]} ELSE {})
    \cup {[aspect_ok |-> TRUE, rect |-> r] : r \in SampledRects(height, width)}

\* the largest image side: Expand scales a side by at most MaxRatio
MaxCanvas == MaxRatio * MaxSide

RECURSIVE CandidateRows(_)
CandidateRows(k) ==
    IF k = 0 THEN <<>>
    ELSE CandidateRows(k - 1) \o
         <<TrialCandidates(((k - 1) \div MaxCanvas) + 1, ((k - 1) % MaxCanvas) + 1)>>

\* TrialCandidates, tabulated by image shape
CandidateTable == CandidateRows(MaxCanvas * MaxCanvas)

CandidatesFor(img) == CandidateTable[(img.h - 1) * MaxCanvas + img.w]

StayInTrials(t) == [pc |-> "trials", trial |-> (t + 1) % MaxTrials]

\* continue: the next pass of the for loop, or, after the last one, the next
\* pass of "while True"
AfterFailedTrial(t) ==
    IF t + 1 < MaxTrials THEN [pc |-> "trials", trial |-> t + 1]
    ELSE [pc |-> "idle", trial |-> t + 1]

\* one pass of the body of "for _ in range(50)"
CropAttempt ==
    /\ Running("RandomSampleCrop") /\ pc = "trials" /\ trial < MaxTrials
    /\ \E cand \in CandidatesFor(image) :
          \E out \in {IF cand.aspect_ok
                       THEN CropTrial(mode, cand.rect, image, masks, boxes, labels)
                       ELSE [kind |-> "reject", image |-> image, masks |-> masks,
                             boxes |-> boxes, labels |-> labels]} :
              CASE out.kind = "accept" ->
                     /\ image' = out.image /\ masks' = out.masks
                     /\ boxes' = out.boxes /\ labels' = out.labels
                     /\ rect' = cand.rect
                     /\ ret' = "crop"
                     /\ pc' = "idle" /\ trial' = 0
                     /\ idx' = idx + 1
                     /\ UNCHANGED err
                [] out.kind = "reject" ->
                     /\ pc' = AfterFailedTrial(trial).pc
                     /\ trial' = AfterFailedTrial(trial).trial
                     /\ UNCHANGED <<image, masks, boxes, labels, rect, ret, idx, err>>
                [] OTHER ->
                     /\ err' = "RandomSampleCrop"
                     /\ UNCHANGED <<image, masks, boxes, labels, rect, ret, idx, pc, trial>>
    /\ drew' = TRUE
    /\ UNCHANGED <<pipeline, mode, placed, input>>

(***************************************************************************)
(* The transforms that neither draw nor fail.                              *)
(***************************************************************************)
\* return image.astype(np.float32), masks, boxes, labels
ConvertFromInts ==
    /\ Running("ConvertFromInts")
    /\ image' = [image EXCEPT !.dtype = "float32"]
    /\ idx' = idx + 1
    /\ UNCHANGED <<pipeline, err, masks, boxes, labels, pc, mode, trial, rect, ret,
                   placed, drew, input>>

\* boxes[:, 0] *= width, ..., boxes[:, 3] *= height
ToAbsoluteCoords ==
    /\ Running("ToAbsoluteCoords")
    /\ boxes' = ScaleBoxes(boxes, R(image.w), R(image.h))
    /\ idx' = idx + 1
    /\ UNCHANGED <<pipeline, err, image, masks, labels, pc, mode, trial, rect, ret,
                   placed, drew, input>>

\* boxes[:, 0] /= width, ..., boxes[:, 3] /= height
ToPercentCoords ==
    /\ Running("ToPercentCoords")
    /\ boxes' = ScaleBoxes(boxes, <<1, image.w>>, <<1, image.h>>)
    /\ idx' = idx + 1
    /\ UNCHANGED <<pipeline, err, image, masks, labels, pc, mode, trial, rect, ret,
                   placed, drew, input>>

\* img = (img.astype(np.float32) - mean) / std; img = img[:, :, (2, 1, 0)]
NormalizeAndToRGB ==
    /\ Running("NormalizeAndToRGB")
    /\ image' = [image EXCEPT !.dtype = "float32", !.order = "RGB"]
    /\ idx' = idx + 1
    /\ UNCHANGED <<pipeline, err, masks, boxes, labels, pc, mode, trial, rect, ret,
                   placed, drew, input>>

\* brightness, contrast, saturation and hue under coin flips: the pixels of
\* a copy of the image change, its shape and the annotations do not
PhotometricDistort ==
    /\ Running("PhotometricDistort")
    /\ drew' = TRUE
    /\ idx' = idx + 1
    /\ UNCHANGED <<pipeline, err, image, masks, boxes, labels, pc, mode, trial, rect,
                   ret, placed, input>>

(***************************************************************************)
(* Expand.                                                                 *)
(***************************************************************************)
\* the placement Expand computes from its draws for a height x width image
Placement(height, width, ratio, left, top) ==
    [applied |-> TRUE, h |-> height, w |-> width,
     canvas_h |-> PyInt(RMul(R(height), ratio)),
     canvas_w |-> PyInt(RMul(R(width), ratio)),
     top |-> PyInt(top), left |-> PyInt(left),
     bottom |-> PyInt(RAdd(top, R(height))),
     right |-> PyInt(RAdd(left, R(width))),
     shift |-> <<PyInt(left), PyInt(top)>>]

\* the placements the draws of ratio, left and top can give
Placements(height, width) ==
    UNION {{Placement(height, width, ratio, left, top) :
              left \in Uniform(R(1), RSub(RMul(R(width), ratio), R(width))),
              top \in Uniform(R(1), RSub(RMul(R(height), ratio), R(height)))} :
           ratio \in Uniform(R(1), R(MaxRatio))}

\* expand_image[int(top):int(top + height), int(left):int(left + width)] = image
\* (and the same slice of expand_masks = masks) is a legal assignment
PlacementAssigns(p, src_h, src_w) ==
    /\ AssignOK(src_h, SliceLen(p.top, p.bottom, p.canvas_h))
    /\ AssignOK(src_w, SliceLen(p.left, p.right, p.canvas_w))

\* boxes[:, :2] += (int(left), int(top)); boxes[:, 2:] += (int(left), int(top))
ShiftBox(b, shift) ==
    <<RAdd(b[1], R(shift[1])), RAdd(b[2], R(shift[2])),
      RAdd(b[3], R(shift[1])), RAdd(b[4], R(shift[2]))>>

RECURSIVE ShiftBoxes(_, _)
ShiftBoxes(bxs, shift) ==
    IF bxs = <<>> THEN <<>>
    ELSE <<ShiftBox(Head(bxs), shift)>> \o ShiftBoxes(Tail(bxs), shift)

Expand ==
    /\ Running("Expand")
    /\ drew' = TRUE
    /\ \E coin \in 0..1 :
          IF coin = 0
          THEN /\ idx' = idx + 1
               /\ UNCHANGED <<err, image, masks, boxes, placed>>
          ELSE \E p \in Placements(image.h, image.w) :
                  /\ placed' = p
                  /\ IF /\ PlacementAssigns(p, image.h, image.w)
                        /\ PlacementAssigns(p, masks.h, masks.w)
                     THEN /\ image' = [image EXCEPT !.h = p.canvas_h, !.w = p.canvas_w]
                          /\ masks' = [masks EXCEPT !.h = p.canvas_h, !.w = p.canvas_w]
                          /\ boxes' = ShiftBoxes(boxes, p.shift)
                          /\ idx' = idx + 1
                          /\ UNCHANGED err
                     ELSE /\ err' = "Expand"
                          /\ UNCHANGED <<idx, image, masks, boxes>>
    /\ UNCHANGED <<pipeline, labels, pc, mode, trial, rect, ret, input>>

(***************************************************************************)
(* RandomMirror, Resize, Pad.                                              *)
(***************************************************************************)
\* boxes[:, 0::2] = width - boxes[:, 2::-2]
MirrorBox(b, width) == <<RSub(R(width), b[3]), b[2], RSub(R(width), b[1]), b[4]>>

RECURSIVE MirrorBoxes(_, _)
MirrorBoxes(bxs, width) ==
    IF bxs = <<>> THEN <<>>
    ELSE <<MirrorBox(Head(bxs), width)>> \o MirrorBoxes(Tail(bxs), width)

RandomMirror ==
    /\ Running("RandomMirror")
    /\ drew' = TRUE
    /\ \E coin \in 0..1 :
          boxes' = IF coin = 1 THEN MirrorBoxes(boxes, image.w) ELSE boxes
    /\ idx' = idx + 1
    /\ UNCHANGED <<pipeline, err, image, masks, labels, pc, mode, trial, rect, ret,
                   placed, input>>

ResizedMasksKept(msk, size, gt) == msk

\* masks = cv2.resize(masks.transpose((1, 2, 0)), (width, height)), put
\* back to (N, height, width), when resize_gt is set
ResizedMasks(msk, size, gt) ==
    IF gt THEN [msk EXCEPT !.h = size, !.w = size] ELSE msk

\* boxes[:, [0, 2]] *= (width / img_w); boxes[:, [1, 3]] *= (height / img_h)
ResizedBoxes(bxs, size, gt, img_h, img_w) ==
    IF gt THEN ScaleBoxes(bxs, <<size, img_w>>, <<size, img_h>>) ELSE bxs

\* cv2.resize raises on an empty source
Resize ==
    /\ Running("Resize")
    /\ LET t == pipeline[idx]
       IN  IF image.h = 0 \/ image.w = 0 \/ (t.gt /\ (masks.h = 0 \/ masks.w = 0))
           THEN /\ err' = "Resize"
                /\ UNCHANGED <<idx, image, masks, boxes>>
           ELSE /\ image' = [image EXCEPT !.h = t.size, !.w = t.size]
                /\ masks' = ResizedMasks(masks, t.size, t.gt)
                /\ boxes' = ResizedBoxes(boxes, t.size, t.gt, image.h, image.w)
                /\ idx' = idx + 1
                /\ UNCHANGED err
    /\ UNCHANGED <<pipeline, labels, pc, mode, trial, rect, ret, placed, drew, input>>

\* expand_masks[:, :im_h, :im_w] = masks on a (N, height, width) canvas,
\* when pad_gt is set
PaddedMasks(msk, size, gt) ==
    IF gt THEN [msk EXCEPT !.h = size, !.w = size] ELSE msk

\* expand_image[:im_h, :im_w] = image on a (height, width) canvas; the
\* assignment raises when the image does not fit
Pad ==
    /\ Running("Pad")
    /\ LET t == pipeline[idx]
           slice_h == SliceLen(0, image.h, t.size)
           slice_w == SliceLen(0, image.w, t.size)
       IN  IF /\ AssignOK(image.h, slice_h) /\ AssignOK(image.w, slice_w)
              /\ t.gt => (AssignOK(masks.h, slice_h) /\ AssignOK(masks.w, slice_w))
           THEN /\ image' = [image EXCEPT !.h = t.size, !.w = t.size]
                /\ masks' = PaddedMasks(masks, t.size, t.gt)
                /\ idx' = idx + 1
                /\ UNCHANGED err
           ELSE /\ err' = "Pad"
                /\ UNCHANGED <<idx, image, masks>>
    /\ UNCHANGED <<pipeline, boxes, labels, pc, mode, trial, rect, ret, placed, drew, input>>

(***************************************************************************)
(* The pipelines.                                                          *)
(***************************************************************************)
ValAugResizingGt(img_size) ==
    << T("ConvertFromInts"),
       Transform("Resize", img_size, TRUE),
       Transform("Pad", img_size, FALSE),
       T("NormalizeAndToRGB") >>

ValAug(img_size) ==
    << T("ConvertFromInts"),
       Transform("Resize", img_size, FALSE),
       Transform("Pad", img_size, FALSE),
       T("NormalizeAndToRGB") >>

TrainAug(img_size) ==
    << T("ConvertFromInts"),
       T("ToAbsoluteCoords"),
       T("PhotometricDistort"),
       T("Expand"),
       T("RandomSampleCrop"),
       T("RandomMirror"),
       Transform("Resize", img_size, TRUE),
       Transform("Pad", img_size, TRUE),
       T("ToPercentCoords"),
       T("NormalizeAndToRGB") >>

(***************************************************************************)
(* Inputs.                                                                 *)
(***************************************************************************)
Shapes == (1..MaxSide) \X (1..MaxSide)

\* the boxes of the inputs, in percent coordinates: the whole image, its
\* left half, its bottom right part and a vertical line (x1 = x2)
PercentBoxes ==
    { <<R(0), R(0), R(1), R(1)>>,
      <<R(0), R(0), <<1, 2>>, R(1)>>,
      <<<<1, 4>>, <<1, 4>>, R(1), R(1)>>,
      <<<<1, 2>>, R(0), <<1, 2>>, R(1)>> }

\* the sequences of 1..MaxAnn boxes over PercentBoxes
RECURSIVE BoxSeqs(_)
BoxSeqs(n) ==
    IF n = 0 THEN {<<>>}
    ELSE {<<b>> \o q : b \in PercentBoxes, q \in BoxSeqs(n - 1)}

Annotations == UNION {BoxSeqs(n) : n \in 1..MaxAnn}

RECURSIVE Iota(_)
\* <<1, ..., n>>
Iota(n) == IF n = 0 THEN <<>> ELSE Iota(n - 1) \o <<n>>

RawImage(h, w) == [h |-> h, w |-> w, c |-> 3, dtype |-> "uint8", order |-> "BGR"]

Sample(h, w, bxs, nc, size) ==
    [image |-> RawImage(h, w),
     masks |-> [ids |-> Iota(Len(bxs)), h |-> h, w |-> w],
     boxes |-> bxs,
     labels |-> [labels |-> Iota(Len(bxs)), num_crowds |-> nc],
     img_size |-> size]

StartOn(sample, transforms) ==
    /\ input = sample
    /\ pipeline = transforms
    /\ idx = 1
    /\ err = "none"
    /\ image = sample.image
    /\ masks = sample.masks
    /\ boxes = sample.boxes
    /\ labels = sample.labels
    /\ pc = "idle" /\ mode = 0 /\ trial = 0
    /\ rect = <<0, 0, 0, 0>>
    /\ ret = "none"
    /\ placed = NoPlacement
    /\ drew = FALSE

\* RandomSampleCrop and Expand are called on absolute boxes
CropSamples ==
    {Sample(s[1], s[2], ScaleBoxes(q, R(s[2]), R(s[1])), nc, 1) :
        s \in Shapes, q \in Annotations, nc \in 0..MaxAnn}

InitCrop ==
    \E sample \in CropSamples :
        /\ sample.labels.num_crowds <= Len(sample.boxes)
        /\ StartOn(sample, <<T("RandomSampleCrop")>>)

NextCrop == DrawNoOpMode \/ DrawCropMode \/ CropAttempt

\* a call of RandomSampleCrop
SpecCrop == InitCrop /\ [][NextCrop]_vars

\* a call of RandomSampleCrop on one annotation
InitCropOne ==
    \E sample \in CropSamples :
        /\ Len(sample.boxes) = 1
        /\ sample.labels.num_crowds <= 1
        /\ StartOn(sample, <<T("RandomSampleCrop")>>)

InitExpand ==
    \E sample \in CropSamples :
        /\ sample.labels.num_crowds <= Len(sample.boxes)
        /\ StartOn(sample, <<T("Expand")>>)

\* a call of Expand
SpecExpand == InitExpand /\ [][Expand]_vars

\* the pipelines are called on percent boxes
PipelineSamples ==
    {Sample(s[1], s[2], q, nc, size) :
        s \in Shapes, q \in Annotations, nc \in 0..MaxAnn, size \in 1..MaxImgSize}

InitVal ==
    \E sample \in PipelineSamples :
        /\ sample.labels.num_crowds <= Len(sample.boxes)
        /\ StartOn(sample, ValAug(sample.img_size))

\* the boxes of the training samples: the vertical line (x1 = x2) and the
\* whole image
TrainBoxes == {b \in PercentBoxes : b[1] = b[3] \/ (b[1] = R(0) /\ b[3] = R(1))}

\* the training samples: one annotation, not a crowd entry, on an image one
\* pixel high, for the largest target size
InitTrain ==
    \E sample \in PipelineSamples :
        /\ Len(sample.boxes) = 1
        /\ sample.boxes[1] \in TrainBoxes
        /\ sample.labels.num_crowds = 0
        /\ sample.image.h = 1
        /\ sample.img_size = MaxImgSize
        /\ StartOn(sample, TrainAug(sample.img_size))

Init == InitVal \/ InitTrain

Next ==
    \/ ConvertFromInts
    \/ ToAbsoluteCoords
    \/ PhotometricDistort
    \/ Expand
    \/ DrawNoOpMode
    \/ DrawCropMode
    \/ CropAttempt
    \/ RandomMirror
    \/ Resize
    \/ Pad
    \/ ToPercentCoords
    \/ NormalizeAndToRGB

\* a call of ValAug or of TrainAug
Spec == Init /\ [][Next]_vars

NextVal == ConvertFromInts \/ Resize \/ Pad \/ NormalizeAndToRGB

\* a call of ValAug
SpecVal == InitVal /\ [][NextVal]_vars

\* under fair draws: a trial that can run does run, and the draw of a mode
\* does not avoid the no-op mode forever
FairCrop ==
    /\ InitCropOne /\ [][NextCrop]_vars
    /\ WF_vars(CropAttempt)
    /\ SF_vars(DrawNoOpMode)

(***************************************************************************)
(* Properties of RandomSampleCrop, stated on a call of it alone (SpecCrop).*)
(***************************************************************************)
CropReturned == Done /\ ret # "none"

NumIn == Len(input.boxes)
CrowdsIn == input.labels.num_crowds
IsCrowdIn(i) == i > NumIn - CrowdsIn

\* the centre of box b lies strictly inside rect r
StrictlyInside(b, r) ==
    /\ 2 * r[1] * b[1][2] * b[3][2] < b[1][1] * b[3][2] + b[3][1] * b[1][2]
    /\ b[1][1] * b[3][2] + b[3][1] * b[1][2] < 2 * r[3] * b[1][2] * b[3][2]
    /\ 2 * r[2] * b[2][2] * b[4][2] < b[2][1] * b[4][2] + b[4][1] * b[2][2]
    /\ b[2][1] * b[4][2] + b[4][1] * b[2][2] < 2 * r[4] * b[2][2] * b[4][2]

\* the input annotations that survive the crop to r, in input order
Survivors(r) ==
    SelectSeq(Iota(NumIn), LAMBDA i : StrictlyInside(input.boxes[i], r))

\* box b cut to rect r, in the frame of r
CutTo(b, r) ==
    << RSub(IF RLt(b[1], R(r[1])) THEN R(r[1]) ELSE b[1], R(r[1])),
       RSub(IF RLt(b[2], R(r[2])) THEN R(r[2]) ELSE b[2], R(r[2])),
       RSub(IF RLt(R(r[3]), b[3]) THEN R(r[3]) ELSE b[3], R(r[1])),
       RSub(IF RLt(R(r[4]), b[4]) THEN R(r[4]) ELSE b[4], R(r[2])) >>

\* C1: whenever RandomSampleCrop returns, boxes, masks and labels['labels']
\* have one length and entry i of each comes from the same input annotation:
\* the no-op mode returns the input, an accepted crop returns exactly the
\* annotations whose centre is strictly inside the rect, in input order.
C1_CropKeepsAnnotationsAligned ==
    CropReturned =>
        /\ Len(boxes) = Len(masks.ids)
        /\ Len(masks.ids) = Len(labels.labels)
        /\ ret = "noop" =>
              /\ boxes = input.boxes /\ masks = input.masks
              /\ labels = input.labels
        /\ ret = "crop" =>
              LET keep == Survivors(rect)
              IN  /\ masks.ids = keep
                  /\ Len(labels.labels) = Len(keep)
                  /\ Len(boxes) = Len(keep)
                  /\ \A k \in 1..Len(keep) :
                        /\ labels.labels[k] = input.labels.labels[keep[k]]
                        /\ boxes[k] = CutTo(input.boxes[keep[k]], rect)

\* an accepted crop that dropped one of two annotations
C1_Witness ==
    /\ CropReturned /\ ret = "crop"
    /\ NumIn = 2 /\ Len(boxes) = 1 /\ masks.ids = <<2>>

\* C2: after RandomSampleCrop returns, num_crowds is at most the input
\* num_crowds and at most the number of returned boxes, and it counts the
\* surviving crowd entries, which are the trailing entries returned.
C2_NumCrowdsCountsSurvivingCrowds ==
    CropReturned =>
        /\ labels.num_crowds <= CrowdsIn
        /\ labels.num_crowds <= Len(boxes)
        /\ labels.num_crowds =
              Cardinality({k \in 1..Len(masks.ids) : IsCrowdIn(masks.ids[k])})
        /\ \A k \in 1..Len(masks.ids) :
              IsCrowdIn(masks.ids[k]) <=> k > Len(masks.ids) - labels.num_crowds

\* an accepted crop that dropped a crowd entry
C2_Witness ==
    /\ CropReturned /\ ret = "crop"
    /\ CrowdsIn = 1 /\ labels.num_crowds = 0

\* C3: an accepted candidate keeps at least one non-crowd annotation; when
\* every input annotation is a crowd entry the call returns only through the
\* no-op mode, with the input unchanged.
C3_AcceptedCropKeepsARegular ==
    /\ (CropReturned /\ ret = "crop") =>
          \E k \in 1..Len(masks.ids) : ~IsCrowdIn(masks.ids[k])
    /\ (CropReturned /\ CrowdsIn = NumIn) =>
          /\ ret = "noop"
          /\ boxes = input.boxes /\ masks = input.masks /\ labels = input.labels

\* all annotations are crowd entries, one of them lies inside a candidate
\* rect, and a cropping mode has used up its trials
C3_Witness ==
    /\ CrowdsIn = NumIn
    /\ pc = "idle" /\ trial = MaxTrials /\ mode \in CropModes
    /\ \E cand \in CandidatesFor(image) :
          /\ cand.aspect_ok
          /\ \E i \in 1..NumIn : StrictlyInside(input.boxes[i], cand.rect)

\* C4: after an accepted crop every returned box satisfies
\* 0 <= x1 <= x2 <= crop_width and 0 <= y1 <= y2 <= crop_height, the width
\* and height being those of the returned image.
C4_CroppedBoxesInsideCrop ==
    (CropReturned /\ ret = "crop") =>
        \A k \in 1..Len(boxes) :
            /\ RLe(R(0), boxes[k][1]) /\ RLe(boxes[k][1], boxes[k][3])
            /\ RLe(boxes[k][3], R(image.w))
            /\ RLe(R(0), boxes[k][2]) /\ RLe(boxes[k][2], boxes[k][4])
            /\ RLe(boxes[k][4], R(image.h))

\* an accepted rect that reaches past the image (width - w < 1, left = 1)
\* and cuts a surviving box
C4_Witness ==
    /\ CropReturned /\ ret = "crop"
    /\ rect[3] > input.image.w
    /\ \E k \in 1..Len(boxes) :
          /\ boxes[k][3] = R(image.w)
          /\ RLt(RSub(boxes[k][3], boxes[k][1]),
                 RSub(input.boxes[masks.ids[k]][3], input.boxes[masks.ids[k]][1]))

\* the position in sample_options of the unconstrained mode (None, None)
Unconstrained ==
    CHOOSE m \in CropModes :
        sample_options[m].min_iou.k = "none" /\ sample_options[m].max_iou.k = "none"

\* C10: the overlap test rejects no candidate in any cropping mode, so on
\* the same rect and annotations a minimum-overlap mode accepts, rejects and
\* returns what the unconstrained mode does.
C10_OverlapTestNeverRejects ==
    (Running("RandomSampleCrop") /\ pc = "trials") =>
        \A cand \in CandidatesFor(image) :
            cand.aspect_ok =>
                /\ ~OverlapRejects(jaccard_numpy(boxes, RectBox(cand.rect)),
                                   MinIoU(mode), MaxIoU(mode))
                /\ CropTrial(mode, cand.rect, image, masks, boxes, labels)
                   = CropTrial(Unconstrained, cand.rect, image, masks, boxes, labels)

\* the 0.9 mode accepted a rect whose least overlap is below 0.9
C10_Witness ==
    /\ CropReturned /\ ret = "crop"
    /\ mode \in CropModes /\ sample_options[mode].min_iou = Num(<<9, 10>>)
    /\ FLt(ArrMin(jaccard_numpy(input.boxes, RectBox(rect))), Num(<<9, 10>>))

\* C8: the call returns only by drawing the no-op mode or by accepting a
\* candidate, a mode makes at most 50 trials before a new mode is drawn,
\* and under fair draws every call returns.
C8_CropSearchReturns ==
    /\ [](Done => \/ ret = "noop" /\ sample_options[mode].full
                  \/ ret = "crop" /\ mode \in CropModes)
    /\ [](trial <= MaxTrials /\ (trial = MaxTrials => pc = "idle"))
    /\ <>Done

\* every annotation is a crowd entry, so no candidate can be accepted: a
\* mode has been given up after 50 trials
C8_Witness ==
    /\ CrowdsIn = NumIn
    /\ Running("RandomSampleCrop")
    /\ pc = "idle" /\ trial = MaxTrials

(***************************************************************************)
(* Properties of Expand, stated on a call of it alone (SpecExpand).        *)
(***************************************************************************)
\* C9: when Expand applies, the image fits inside the canvas at the offset
\* drawn: int(left) >= 0, int(top) >= 0, int(left) + width <= int(width *
\* ratio), int(top) + height <= int(height * ratio); and every box is
\* translated by (int(left), int(top)).
C9_ExpandPlacesImageInsideCanvas ==
    placed.applied =>
        /\ placed.left >= 0 /\ placed.top >= 0
        /\ placed.left + placed.w <= placed.canvas_w
        /\ placed.top + placed.h <= placed.canvas_h
        /\ Done => boxes = ShiftBoxes(input.boxes, <<placed.left, placed.top>>)

(***************************************************************************)
(* Properties of the pipelines (Spec, SpecVal).                            *)
(***************************************************************************)
IsTrain == pipeline = TrainAug(input.img_size)
IsVal == pipeline = ValAug(input.img_size)

Geometric == {"Expand", "RandomSampleCrop", "RandomMirror", "Resize", "Pad"}

\* the transform before position idx has returned and is one of names
JustRan(names) == err = "none" /\ idx > 1 /\ pipeline[idx - 1].name \in names

\* masks.shape[1:] == image.shape[:2]
Aligned == masks.h = image.h /\ masks.w = image.w

InputAligned == input.masks.h = input.image.h /\ input.masks.w = input.image.w

\* C5 as claimed: on an aligned input, masks.shape[1:] == image.shape[:2]
\* holds after every geometric transform of both pipelines.
C5_AlignedAfterEveryGeometricTransform ==
    (InputAligned /\ JustRan(Geometric)) => Aligned

\* C5 as amended: on an aligned input the alignment holds after every
\* geometric transform of the training pipeline; after Resize and after Pad
\* of the validation pipeline the image is (s, s) and the masks have their
\* input shape, so they are aligned only when the input image is s x s.
C5_AlignedInTrainingOnly ==
    (InputAligned /\ JustRan(Geometric)) =>
        /\ IsTrain => Aligned
        /\ IsVal =>
              /\ image.h = input.img_size /\ image.w = input.img_size
              /\ masks = input.masks
              /\ Aligned <=> (input.image.h = input.img_size
                              /\ input.image.w = input.img_size)

\* the training pipeline has expanded, cropped, resized and padded
C5_Witness ==
    /\ IsTrain /\ JustRan({"Pad"})
    /\ placed.applied /\ ret = "crop"
    /\ rect[3] - rect[1] # input.img_size
    /\ Aligned

\* C6: ValAug returns boxes, masks and the label bundle as supplied and an
\* image of shape (s, s, 3); it draws nothing, so its result is a function of
\* its input.
C6_ValAugLeavesGroundTruth ==
    /\ err = "none" /\ ~drew
    /\ boxes = input.boxes /\ masks = input.masks /\ labels = input.labels
    /\ Done => image = [h |-> input.img_size, w |-> input.img_size, c |-> 3,
                        dtype |-> "float32", order |-> "RGB"]

\* ValAug has returned for an image that is not s x s and two annotations
C6_Witness ==
    /\ IsVal /\ Done
    /\ input.image.h # input.img_size /\ input.image.w # input.img_size
    /\ Len(input.boxes) = 2 /\ input.labels.num_crowds = 1

\* C7: TrainAug on a sample whose single box has x1 = x2 and num_crowds = 0
\* reaches no error in any stage and returns an image of shape (s, s, 3).
C7_TrainAugOnZeroAreaBoxNeverFails ==
    (/\ IsTrain
     /\ Len(input.boxes) = 1 /\ input.boxes[1][1] = input.boxes[1][3]
     /\ input.labels.num_crowds = 0) =>
        /\ err = "none"
        /\ Done => (image.h = input.img_size /\ image.w = input.img_size /\ image.c = 3)
====
